---- MODULE Spec2Model ----
(***************************************************************************)
(* AC200 companion chip: MFD core driver (drivers/mfd/ac200.c) and the     *)
(* EPHY control / reset-controller sub-driver                              *)
(* (drivers/phy/allwinner/ac200-ephy-ctl.c).                               *)
(*                                                                         *)
(* The state is the chip's register file, the enable count the core holds  *)
(* on the reference clock, the driver-model binding of the two devices and *)
(* the bus/clock events issued by the handler that ran last.               *)
(***************************************************************************)
EXTENDS Integers, Sequences, FiniteSets, TLC

VARIABLES
    regs,        \* chip registers, by logical address
    clk_cnt,     \* enables the MFD core holds on ac200->clk
    core,        \* binding of the i2c device: "unbound" | "bound"
    cells,       \* MFD cells currently registered (ac200_cells)
    ephy,        \* binding of the ac200-ephy-ctl platform device
    trace,       \* events issued by the last handler, in program order
    handler,     \* name of the last handler
    ret,         \* its return value
    arg,         \* the failures injected into it
    nvmem,       \* platform: the "bandgap" and "calibration" cells
    dt,          \* platform: device-tree properties and parent clock rate
    rstLast,     \* bit value last set through the reset-line accessor (-1: none)
    gateLast,    \* bit value last set through the gate-clock accessor (-1: none)
    probes,      \* number of attach attempts so far (core + ephy)
    lock,        \* owner of the regmap lock ("" when free)
    pc,          \* per caller: position inside regmap_update_bits
    cur,         \* per caller: operation in progress
    tmp,         \* per caller: value read by the read-modify-write
    left,        \* per caller: operations the caller may still start
    sel,         \* chip: content of the page-select register 0xFE
    hit,         \* per caller: where its last windowed access landed
    pool         \* per caller: logical addresses it accesses

vars == <<regs, clk_cnt, core, cells, ephy, trace, handler, ret, arg, nvmem, dt,
          rstLast, gateLast, probes, lock, pc, cur, tmp, left, sel, hit, pool>>

raceVars == <<lock, pc, cur, tmp, left>>

pageVars == <<sel, hit, pool>>

-----------------------------------------------------------------------------
(* Bounds                                                                  *)

MaxProbes == 2
MaxBlobLen == 3
MaxRaceOps == 2
MaxPageOps == 2

-----------------------------------------------------------------------------
(* Register map and bit definitions                                        *)

AC200_SYS_CONTROL == 2
AC200_SYS_BG_CTL == 80
AC200_SYS_EPHY_CTL0 == 20
AC200_SYS_EPHY_CTL1 == 22
AC200_EPHY_CTL == 24576

AC200_TWI_REG_ADDR_H == 254
AC200_MAX_REG == 41458
SELECTOR_MASK == 255
SELECTOR_SHIFT == 0
WINDOW_START == 0
WINDOW_LEN == 256

AC200_EPHY_RESET_INVALID == 1
AC200_EPHY_SYSCLK_GATING == 1
AC200_EPHY_SHUTDOWN == 1
AC200_EPHY_LED_POL == 2
AC200_EPHY_CLK_SEL == 4
AC200_EPHY_XMII_SEL == 2048
AC200_EPHY_IO_EN_ALL == 15
BG_PATTERN == 33408

ENOMEM == 12
EINVAL == 22
EPROBE_DEFER == 517
GPIO_ACTIVE_LOW == 1

WordBits == 32

RECURSIVE AndN(_, _, _)
AndN(a, b, n) ==
    IF n = 0 \/ a = 0 \/ b = 0 THEN 0
    ELSE ((a % 2) * (b % 2)) + 2 * AndN(a \div 2, b \div 2, n - 1)

BitAnd(a, b) == AndN(a, b, WordBits)

BitOr(a, b) == a + b - BitAnd(a, b)

BitClear(a, m) == a - BitAnd(a, m)

U16(x) == x % 65536

BIT(n) == 2 ^ n

-----------------------------------------------------------------------------
(* Inputs                                                                  *)

ByteVals == {0, 10}

\* cells of the right length with every content, and cells of each wrong length
Blobs ==
    [1..2 -> ByteVals] \cup {[i \in 1..n |-> 0] : n \in (1..MaxBlobLen) \ {2}}

BusErrs == {-5, -121}

Regs == {AC200_SYS_CONTROL, AC200_SYS_BG_CTL, AC200_SYS_EPHY_CTL0,
         AC200_SYS_EPHY_CTL1, AC200_EPHY_CTL}

AC200_CELLS == {"ac200-codec", "ac200-ephy-ctl"}

CoreSteps == {"none", "kzalloc", "clk_get", "regmap_init", "cell_get",
              "cell_read", "clk_enable", "w_clear", "w_run", "w_bg",
              "add_devices"}

\* *bgdata / *caldata: the two bytes of the cell read as a little-endian u16
le16(blob) == blob[1] + 256 * blob[2]

-----------------------------------------------------------------------------
(* Environment primitives: a machine state m carries the registers, the    *)
(* clock enable count, the registered cells, the events and the result.    *)

Machine == [regs |-> regs, clk |-> clk_cnt, cells |-> cells,
            trace |-> <<>>, ret |-> 0, rst |-> rstLast, gate |-> gateLast]

ClkOn(m) == m.clk > 0

regmap_write(m, reg, val, ok) ==
    [m EXCEPT !.trace = Append(@, [k |-> "write", reg |-> reg, val |-> val,
                                   ok |-> ok, clk |-> ClkOn(m)]),
              !.regs = IF ok THEN [@ EXCEPT ![reg] = val] ELSE @]

regmap_read(m, reg, ok) ==
    [m EXCEPT !.trace = Append(@, [k |-> "read", reg |-> reg,
                                   val |-> m.regs[reg],
                                   ok |-> ok, clk |-> ClkOn(m)])]

clk_prepare_enable(m, ok) ==
    [m EXCEPT !.trace = Append(@, [k |-> "clk_enable", reg |-> 0, val |-> 0,
                                   ok |-> ok, clk |-> ClkOn(m)]),
              !.clk = IF ok THEN @ + 1 ELSE @]

clk_disable_unprepare(m) ==
    [m EXCEPT !.trace = Append(@, [k |-> "clk_disable", reg |-> 0, val |-> 0,
                                   ok |-> TRUE, clk |-> ClkOn(m)]),
              !.clk = @ - 1]

msleep(m, ms) ==
    [m EXCEPT !.trace = Append(@, [k |-> "msleep", reg |-> 0, val |-> ms,
                                   ok |-> TRUE, clk |-> ClkOn(m)])]

devm_mfd_add_devices(m, ok) ==
    [m EXCEPT !.trace = Append(@, [k |-> "add_devices", reg |-> 0, val |-> 0,
                                   ok |-> ok, clk |-> ClkOn(m)]),
              !.cells = IF ok THEN AC200_CELLS ELSE {}]

Return(m, r) == [m EXCEPT !.ret = r]

-----------------------------------------------------------------------------
(* MFD core: ac200_i2c_probe / ac200_i2c_remove                            *)

core_err_leak(m, r) == Return(m, r)

\* the err: label
core_err(m, r) == Return(clk_disable_unprepare(m), r)

bg_word_lowbyte(bgval) == BitOr(BG_PATTERN, BitAnd(bgval, 255))

\* value written to the bandgap register
bg_word(bgval) == BitOr(BG_PATTERN, bgval)

core_children(m, fail, err) ==
    LET m6 == devm_mfd_add_devices(m, fail # "add_devices")
    IN  IF fail = "add_devices" THEN core_err(m6, err) ELSE Return(m6, 0)

core_bandgap_always(m, bgval, fail, err) ==
    LET m5 == regmap_write(m, AC200_SYS_BG_CTL, bg_word(bgval), fail # "w_bg")
    IN  IF fail = "w_bg" THEN core_err(m5, err)
        ELSE core_children(m5, fail, err)

core_bandgap(m, bgval, fail, err) ==
    IF bgval # 0
    THEN LET m5 == regmap_write(m, AC200_SYS_BG_CTL, bg_word(bgval),
                                fail # "w_bg")
         IN  IF fail = "w_bg" THEN core_err(m5, err)
             ELSE core_children(m5, fail, err)
    ELSE core_children(m, fail, err)

core_run_ignore(m, bgval, fail, err) ==
    core_bandgap(regmap_write(m, AC200_SYS_CONTROL, 1, fail # "w_run"),
                 bgval, fail, err)

core_run(m, bgval, fail, err) ==
    LET m4 == regmap_write(m, AC200_SYS_CONTROL, 1, fail # "w_run")
    IN  IF fail = "w_run" THEN core_err(m4, err)
        ELSE core_bandgap(m4, bgval, fail, err)

core_bringup_unwind_enable(m, bgval, fail, err) ==
    LET m1 == clk_prepare_enable(m, fail # "clk_enable")
    IN  IF fail = "clk_enable" THEN core_err(m1, err)
        ELSE LET m2 == msleep(m1, 40)
                 m3 == regmap_write(m2, AC200_SYS_CONTROL, 0, fail # "w_clear")
             IN  IF fail = "w_clear" THEN core_err(m3, err)
                 ELSE core_run(m3, bgval, fail, err)

core_bringup(m, bgval, fail, err) ==
    LET m1 == clk_prepare_enable(m, fail # "clk_enable")
    IN  IF fail = "clk_enable" THEN Return(m1, err)
        ELSE LET m2 == msleep(m1, 40)
                 m3 == regmap_write(m2, AC200_SYS_CONTROL, 0, fail # "w_clear")
             IN  IF fail = "w_clear" THEN core_err(m3, err)
                 ELSE core_run(m3, bgval, fail, err)

ac200_i2c_probe_short_only(m, blob, fail, err) ==
    IF fail = "kzalloc" THEN Return(m, -ENOMEM)
    ELSE IF fail \in {"clk_get", "regmap_init", "cell_get", "cell_read"}
    THEN Return(m, err)
    ELSE IF Len(blob) < 2 THEN Return(m, -EINVAL)
    ELSE core_bringup(m, le16(blob), fail, err)

ac200_i2c_probe(m, blob, fail, err) ==
    IF fail = "kzalloc" THEN Return(m, -ENOMEM)
    ELSE IF fail \in {"clk_get", "regmap_init", "cell_get", "cell_read"}
    THEN Return(m, err)
    ELSE IF Len(blob) # 2 THEN Return(m, -EINVAL)
    ELSE core_bringup(m, le16(blob), fail, err)

ac200_i2c_remove_late_write(m, ok) ==
    regmap_write(clk_disable_unprepare(m), AC200_SYS_CONTROL, 0, ok)

ac200_i2c_remove(m, ok) ==
    clk_disable_unprepare(regmap_write(m, AC200_SYS_CONTROL, 0, ok))

-----------------------------------------------------------------------------
(* regmap bit helpers as the drivers use them.  fail is the bus transfer   *)
(* of this call that fails: "none", "read" or "write".                     *)

UpdFails == {"none", "read", "write"}

update_word(orig, mask, val) == BitOr(BitClear(orig, mask), BitAnd(val, mask))

regmap_update_bits(m, reg, mask, val, fail, err) ==
    LET m1 == regmap_read(m, reg, fail # "read")
        new == update_word(m.regs[reg], mask, val)
    IN  IF fail = "read" THEN Return(m1, err)
        ELSE IF new = m.regs[reg] THEN Return(m1, 0)
        ELSE LET m2 == regmap_write(m1, reg, new, fail # "write")
             IN  IF fail = "write" THEN Return(m2, err) ELSE Return(m2, 0)

regmap_set_bits(m, reg, bits, fail, err) ==
    regmap_update_bits(m, reg, bits, bits, fail, err)

regmap_clear_bits(m, reg, bits, fail, err) ==
    regmap_update_bits(m, reg, bits, 0, fail, err)

regmap_test_bits(m, reg, bits, fail, err) ==
    LET m1 == regmap_read(m, reg, fail # "read")
    IN  IF fail = "read" THEN Return(m1, err)
        ELSE Return(m1, IF BitAnd(m.regs[reg], bits) = bits THEN 1 ELSE 0)

\* bookkeeping: the value a successful accessor call has established
SetRst(m, v) == IF m.ret = 0 THEN [m EXCEPT !.rst = v] ELSE m
SetGate(m, v) == IF m.ret = 0 THEN [m EXCEPT !.gate = v] ELSE m

-----------------------------------------------------------------------------
(* EPHY control: reset-line callbacks (ephy_ctl_reset_ops)                 *)

ephy_ctl_assert_blind(m, fail, err) ==
    SetRst(Return(regmap_write(m, AC200_SYS_EPHY_CTL0, 0, fail = "none"),
                  IF fail = "none" THEN 0 ELSE err), 0)

ephy_ctl_assert(m, fail, err) ==
    SetRst(regmap_clear_bits(m, AC200_SYS_EPHY_CTL0,
                             AC200_EPHY_RESET_INVALID, fail, err), 0)

ephy_ctl_deassert(m, fail, err) ==
    SetRst(regmap_set_bits(m, AC200_SYS_EPHY_CTL0,
                           AC200_EPHY_RESET_INVALID, fail, err), 1)

ephy_ctl_reset_ignore(m, fail1, fail2, err) ==
    LET m1 == SetRst(regmap_clear_bits(m, AC200_SYS_EPHY_CTL0,
                                       AC200_EPHY_RESET_INVALID, fail1, err), 0)
    IN  SetRst(regmap_set_bits(Return(m1, 0), AC200_SYS_EPHY_CTL0,
                               AC200_EPHY_RESET_INVALID, fail2, err), 1)

ephy_ctl_reset_swapped(m, fail1, fail2, err) ==
    LET m1 == SetRst(regmap_set_bits(m, AC200_SYS_EPHY_CTL0,
                                     AC200_EPHY_RESET_INVALID, fail1, err), 1)
    IN  IF m1.ret # 0 THEN m1
        ELSE SetRst(regmap_clear_bits(m1, AC200_SYS_EPHY_CTL0,
                                      AC200_EPHY_RESET_INVALID, fail2, err), 0)

ephy_ctl_reset(m, fail1, fail2, err) ==
    LET m1 == SetRst(regmap_clear_bits(m, AC200_SYS_EPHY_CTL0,
                                       AC200_EPHY_RESET_INVALID, fail1, err), 0)
    IN  IF m1.ret # 0 THEN m1
        ELSE SetRst(regmap_set_bits(m1, AC200_SYS_EPHY_CTL0,
                                    AC200_EPHY_RESET_INVALID, fail2, err), 1)

ephy_ctl_status_gate(m, fail, err) ==
    regmap_test_bits(m, AC200_SYS_EPHY_CTL0, BIT(AC200_EPHY_SYSCLK_GATING),
                     fail, err)

ephy_ctl_status(m, fail, err) ==
    regmap_test_bits(m, AC200_SYS_EPHY_CTL0, AC200_EPHY_RESET_INVALID,
                     fail, err)

(* Gate clock registered on AC200_SYS_EPHY_CTL0, bit index                 *)
(* AC200_EPHY_SYSCLK_GATING, flags 0 (set to enable), on priv->regmap.     *)

clk_gate_enable(m, fail, err) ==
    SetGate(regmap_update_bits(m, AC200_SYS_EPHY_CTL0,
                               BIT(AC200_EPHY_SYSCLK_GATING),
                               BIT(AC200_EPHY_SYSCLK_GATING), fail, err), 1)

clk_gate_disable(m, fail, err) ==
    SetGate(regmap_update_bits(m, AC200_SYS_EPHY_CTL0,
                               BIT(AC200_EPHY_SYSCLK_GATING), 0, fail, err), 0)

-----------------------------------------------------------------------------
(* EPHY control: ac200_ephy_ctl_probe / ac200_ephy_ctl_remove              *)

\* device-tree values of the board: every interface mode class, the LED
\* polarity, PHY address and parent clock rate of the reference board
PhyModes == {"mii", "rmii", "rgmii"}
Polarities == {GPIO_ACTIVE_LOW}
PhyAddrs == {5}
ClkRates == {24000000}

EphySteps == {"none", "kzalloc", "get_regmap", "cell_get", "cell_read",
              "phy_mode", "led_pol", "phy_addr", "clk_get", "w_ctl0",
              "w_ctl1", "w_ephy", "rc_register", "gate_register",
              "clk_provider"}

AC200_EPHY_ADDR(x) == BitAnd(x, 31) * 16
AC200_EPHY_CALIB(x) == BitAnd(x, 15) * 4096

ac200_ephy_ctl_disable_reversed(m, oks) ==
    LET m1 == regmap_write(m, AC200_SYS_EPHY_CTL0, 0, oks[1])
        m2 == regmap_write(m1, AC200_SYS_EPHY_CTL1, 0, oks[2])
    IN  regmap_write(m2, AC200_EPHY_CTL, AC200_EPHY_SHUTDOWN, oks[3])

\* oks[i]: whether the i-th write of the shutdown sequence succeeds
ac200_ephy_ctl_disable(m, oks) ==
    LET m1 == regmap_write(m, AC200_EPHY_CTL, AC200_EPHY_SHUTDOWN, oks[1])
        m2 == regmap_write(m1, AC200_SYS_EPHY_CTL1, 0, oks[2])
    IN  regmap_write(m2, AC200_SYS_EPHY_CTL0, 0, oks[3])

\* the err_disable_ephy: label
ephy_err(m, r, oks) == Return(ac200_ephy_ctl_disable(m, oks), r)

ephy_ctl_word_no_offset(blob, mode, pol, addr, rate) ==
    LET c0 == U16(AC200_EPHY_CALIB(le16(blob)))
        c1 == IF mode = "rmii" THEN BitOr(c0, AC200_EPHY_XMII_SEL) ELSE c0
        c2 == IF pol = GPIO_ACTIVE_LOW THEN BitOr(c1, AC200_EPHY_LED_POL)
              ELSE c1
        c3 == U16(BitOr(c2, AC200_EPHY_ADDR(addr)))
    IN  IF rate = 24000000 THEN BitOr(c3, AC200_EPHY_CLK_SEL) ELSE c3

ephy_ctl_word(blob, mode, pol, addr, rate) ==
    LET c0 == U16(AC200_EPHY_CALIB(le16(blob) + 3))
        c1 == IF mode = "rmii" THEN BitOr(c0, AC200_EPHY_XMII_SEL) ELSE c0
        c2 == IF pol = GPIO_ACTIVE_LOW THEN BitOr(c1, AC200_EPHY_LED_POL)
              ELSE c1
        c3 == U16(BitOr(c2, AC200_EPHY_ADDR(addr)))
    IN  IF rate = 24000000 THEN BitOr(c3, AC200_EPHY_CLK_SEL) ELSE c3

ephy_register(m, fail, err, oks) ==
    LET ev(name) == [k |-> name, reg |-> 0, val |-> 0,
                     ok |-> fail # name, clk |-> ClkOn(m)]
        m1 == [m EXCEPT !.trace = Append(@, ev("rc_register"))]
        m2 == [m1 EXCEPT !.trace = Append(@, ev("gate_register"))]
        m3 == [m2 EXCEPT !.trace = Append(@, ev("clk_provider"))]
    IN  IF fail = "rc_register" THEN ephy_err(m1, err, oks)
        ELSE IF fail = "gate_register" THEN ephy_err(m2, err, oks)
        ELSE IF fail = "clk_provider" THEN ephy_err(m3, err, oks)
        ELSE Return(m3, 0)

ephy_bringup_word_first(m, word, fail, err, oks) ==
    LET m1 == regmap_write(m, AC200_EPHY_CTL, word, fail # "w_ephy")
        m2 == regmap_write(m1, AC200_SYS_EPHY_CTL0, 0, fail # "w_ctl0")
        m3 == regmap_write(m2, AC200_SYS_EPHY_CTL1, AC200_EPHY_IO_EN_ALL,
                           fail # "w_ctl1")
    IN  IF fail = "w_ephy" THEN Return(m1, err)
        ELSE IF fail = "w_ctl0" THEN Return(m2, err)
        ELSE IF fail = "w_ctl1" THEN Return(m3, err)
        ELSE ephy_register(m3, fail, err, oks)

ephy_bringup(m, word, fail, err, oks) ==
    LET m1 == regmap_write(m, AC200_SYS_EPHY_CTL0, 0, fail # "w_ctl0")
        m2 == regmap_write(m1, AC200_SYS_EPHY_CTL1, AC200_EPHY_IO_EN_ALL,
                           fail # "w_ctl1")
        m3 == regmap_write(m2, AC200_EPHY_CTL, word, fail # "w_ephy")
    IN  IF fail = "w_ctl0" THEN Return(m1, err)
        ELSE IF fail = "w_ctl1" THEN Return(m2, err)
        ELSE IF fail = "w_ephy" THEN Return(m3, err)
        ELSE ephy_register(m3, fail, err, oks)

ac200_ephy_ctl_probe_any_mode(m, blob, mode, pol, addr, rate, fail, err, oks) ==
    IF fail = "kzalloc" THEN Return(m, -ENOMEM)
    ELSE IF fail = "get_regmap" THEN Return(m, -EPROBE_DEFER)
    ELSE IF fail \in {"cell_get", "cell_read"} THEN Return(m, err)
    ELSE IF Len(blob) # 2 THEN Return(m, -EINVAL)
    ELSE IF fail \in {"phy_mode", "led_pol", "phy_addr", "clk_get"}
    THEN Return(m, err)
    ELSE ephy_bringup(m, ephy_ctl_word(blob, mode, pol, addr, rate),
                      fail, err, oks)

ac200_ephy_ctl_probe(m, blob, mode, pol, addr, rate, fail, err, oks) ==
    IF fail = "kzalloc" THEN Return(m, -ENOMEM)
    ELSE IF fail = "get_regmap" THEN Return(m, -EPROBE_DEFER)
    ELSE IF fail \in {"cell_get", "cell_read"} THEN Return(m, err)
    ELSE IF Len(blob) # 2 THEN Return(m, -EINVAL)
    ELSE IF fail = "phy_mode" THEN Return(m, err)
    ELSE IF mode \notin {"mii", "rmii"} THEN Return(m, -EINVAL)
    ELSE IF fail \in {"led_pol", "phy_addr", "clk_get"} THEN Return(m, err)
    ELSE ephy_bringup(m, ephy_ctl_word(blob, mode, pol, addr, rate),
                      fail, err, oks)

ac200_ephy_ctl_remove(m, oks) == Return(ac200_ephy_ctl_disable(m, oks), 0)

-----------------------------------------------------------------------------
(* State machine of the two devices                                        *)

NoArg == [fail |-> "none", fail2 |-> "none", err |-> 0,
          oks |-> <<TRUE, TRUE, TRUE>>]

FailErr(steps) ==
    {<<"none", 0>>} \cup ((steps \ {"none"}) \X BusErrs)

Oks3 == [1..3 -> BOOLEAN]

\* the shutdown sequence runs in attach only from the err_disable_ephy label
OksFor(fail) ==
    IF fail \in {"rc_register", "gate_register", "clk_provider"} THEN Oks3
    ELSE {<<TRUE, TRUE, TRUE>>}

Platform ==
    /\ nvmem \in [bandgap : Blobs, calibration : Blobs]
    /\ dt \in [mode : PhyModes, pol : Polarities, addr : PhyAddrs,
               rate : ClkRates]

Init ==
    /\ Platform
    /\ regs = [r \in Regs |-> 0]
    /\ clk_cnt = 0
    /\ core = "unbound"
    /\ cells = {}
    /\ ephy = "unbound"
    /\ trace = <<>>
    /\ handler = "none"
    /\ ret = 0
    /\ arg = NoArg
    /\ rstLast = -1
    /\ gateLast = -1
    /\ probes = 0
    /\ lock = ""
    /\ pc = [c \in {"rst", "gate"} |-> "idle"]
    /\ cur = [c \in {"rst", "gate"} |-> "none"]
    /\ tmp = [c \in {"rst", "gate"} |-> 0]
    /\ left = [c \in {"rst", "gate"} |-> 0]
    /\ sel = 0
    /\ hit = <<>>
    /\ pool = <<>>

\* commit the outcome m of handler h run with inputs a
Commit(m, h, a) ==
    /\ regs' = m.regs
    /\ clk_cnt' = m.clk
    /\ cells' = m.cells
    /\ trace' = m.trace
    /\ ret' = m.ret
    /\ rstLast' = m.rst
    /\ gateLast' = m.gate
    /\ handler' = h
    /\ arg' = a
    /\ UNCHANGED <<raceVars, pageVars, nvmem, dt>>

CoreProbe ==
    /\ core = "unbound"
    /\ probes < MaxProbes
    /\ \E fe \in FailErr(CoreSteps) :
         LET m == ac200_i2c_probe(Machine, nvmem.bandgap, fe[1], fe[2])
         IN  /\ Commit(m, "ac200_i2c_probe",
                       [NoArg EXCEPT !.fail = fe[1], !.err = fe[2]])
             /\ core' = IF m.ret = 0 THEN "bound" ELSE "unbound"
    /\ probes' = probes + 1
    /\ UNCHANGED ephy

CoreRemove ==
    /\ core = "bound"
    /\ \E ok \in BOOLEAN :
         Commit(ac200_i2c_remove(Machine, ok), "ac200_i2c_remove",
                [NoArg EXCEPT !.fail = IF ok THEN "none" ELSE "w_clear"])
    /\ core' = "releasing"
    /\ UNCHANGED <<ephy, probes>>

\* devres release after the core's remove: the managed MFD cells go away,
\* which detaches a bound ac200-ephy-ctl child
DevresRelease ==
    /\ core = "releasing"
    /\ IF ephy = "bound"
       THEN \E oks \in Oks3 :
              Commit([ac200_ephy_ctl_remove(Machine, oks) EXCEPT !.cells = {}],
                     "ac200_ephy_ctl_remove", [NoArg EXCEPT !.oks = oks])
       ELSE Commit([Machine EXCEPT !.cells = {}], "devres_release", NoArg)
    /\ core' = "unbound"
    /\ ephy' = "unbound"
    /\ UNCHANGED probes

EphyProbe ==
    /\ core = "bound"
    /\ "ac200-ephy-ctl" \in cells
    /\ ephy = "unbound"
    /\ probes < MaxProbes
    /\ \E fe \in FailErr(EphySteps) : \E oks \in OksFor(fe[1]) :
         LET m == ac200_ephy_ctl_probe(Machine, nvmem.calibration, dt.mode,
                                       dt.pol, dt.addr, dt.rate,
                                       fe[1], fe[2], oks)
         IN  /\ Commit(IF m.ret = 0 THEN [m EXCEPT !.rst = -1, !.gate = -1]
                       ELSE m,
                       "ac200_ephy_ctl_probe",
                       [NoArg EXCEPT !.fail = fe[1], !.err = fe[2],
                                     !.oks = oks])
             /\ ephy' = IF m.ret = 0 THEN "bound" ELSE "unbound"
    /\ probes' = probes + 1
    /\ UNCHANGED core

EphyRemove ==
    /\ core = "bound"
    /\ ephy = "bound"
    /\ \E oks \in Oks3 :
         Commit(ac200_ephy_ctl_remove(Machine, oks), "ac200_ephy_ctl_remove",
                [NoArg EXCEPT !.oks = oks])
    /\ ephy' = "unbound"
    /\ UNCHANGED <<core, probes>>

\* consumer calls on the registered reset line and gate clock
RstAssert ==
    /\ ephy = "bound"
    /\ \E fe \in FailErr(UpdFails) :
         Commit(ephy_ctl_assert(Machine, fe[1], fe[2]), "ephy_ctl_assert",
                [NoArg EXCEPT !.fail = fe[1], !.err = fe[2]])
    /\ UNCHANGED <<core, ephy, probes>>

RstDeassert ==
    /\ ephy = "bound"
    /\ \E fe \in FailErr(UpdFails) :
         Commit(ephy_ctl_deassert(Machine, fe[1], fe[2]), "ephy_ctl_deassert",
                [NoArg EXCEPT !.fail = fe[1], !.err = fe[2]])
    /\ UNCHANGED <<core, ephy, probes>>

RstPulse ==
    /\ ephy = "bound"
    /\ \E f1 \in UpdFails, f2 \in UpdFails, err \in BusErrs :
         Commit(ephy_ctl_reset(Machine, f1, f2, err), "ephy_ctl_reset",
                [NoArg EXCEPT !.fail = f1, !.fail2 = f2, !.err = err])
    /\ UNCHANGED <<core, ephy, probes>>

RstStatus ==
    /\ ephy = "bound"
    /\ \E fe \in FailErr({"none", "read"}) :
         Commit(ephy_ctl_status(Machine, fe[1], fe[2]), "ephy_ctl_status",
                [NoArg EXCEPT !.fail = fe[1], !.err = fe[2]])
    /\ UNCHANGED <<core, ephy, probes>>

GateEnable ==
    /\ ephy = "bound"
    /\ \E fe \in FailErr(UpdFails) :
         Commit(clk_gate_enable(Machine, fe[1], fe[2]), "clk_gate_enable",
                [NoArg EXCEPT !.fail = fe[1], !.err = fe[2]])
    /\ UNCHANGED <<core, ephy, probes>>

GateDisable ==
    /\ ephy = "bound"
    /\ \E fe \in FailErr(UpdFails) :
         Commit(clk_gate_disable(Machine, fe[1], fe[2]), "clk_gate_disable",
                [NoArg EXCEPT !.fail = fe[1], !.err = fe[2]])
    /\ UNCHANGED <<core, ephy, probes>>

Next ==
    \/ CoreProbe
    \/ CoreRemove
    \/ DevresRelease
    \/ EphyProbe
    \/ EphyRemove
    \/ RstAssert
    \/ RstDeassert
    \/ RstPulse
    \/ RstStatus
    \/ GateEnable
    \/ GateDisable

Spec == Init /\ [][Next]_vars

-----------------------------------------------------------------------------
(* Concurrent callers on AC200_SYS_EPHY_CTL0: one consumer of the reset    *)
(* line and one consumer of the gate clock, each call a sequence of        *)
(* regmap_update_bits on priv->regmap: lock, read, write back, unlock.     *)

Callers == {"rst", "gate"}

CallerOps(c) ==
    IF c = "rst" THEN {"assert", "deassert", "reset"} ELSE {"enable", "disable"}

\* the update a call (or a phase of ephy_ctl_reset) applies
OpMask(op) ==
    IF op \in {"enable", "disable"} THEN BIT(AC200_EPHY_SYSCLK_GATING)
    ELSE AC200_EPHY_RESET_INVALID

OpBits(op) ==
    IF op \in {"deassert", "reset2"} THEN AC200_EPHY_RESET_INVALID
    ELSE IF op = "enable" THEN BIT(AC200_EPHY_SYSCLK_GATING)
    ELSE 0

\* the board after both attaches succeeded
RaceBoard ==
    /\ nvmem = [bandgap |-> <<10, 0>>, calibration |-> <<10, 0>>]
    /\ dt = [mode |-> "rmii", pol |-> GPIO_ACTIVE_LOW, addr |-> 5,
             rate |-> 24000000]

RaceInit ==
    /\ RaceBoard
    /\ regs = [r \in Regs |->
                 IF r = AC200_SYS_CONTROL THEN 1
                 ELSE IF r = AC200_SYS_BG_CTL THEN bg_word(le16(nvmem.bandgap))
                 ELSE IF r = AC200_SYS_EPHY_CTL0 THEN 0
                 ELSE IF r = AC200_SYS_EPHY_CTL1 THEN AC200_EPHY_IO_EN_ALL
                 ELSE ephy_ctl_word(nvmem.calibration, dt.mode, dt.pol,
                                    dt.addr, dt.rate)]
    /\ clk_cnt = 1
    /\ core = "bound"
    /\ cells = AC200_CELLS
    /\ ephy = "bound"
    /\ trace = <<>>
    /\ handler = "ac200_ephy_ctl_probe"
    /\ ret = 0
    /\ arg = NoArg
    /\ rstLast = -1
    /\ gateLast = -1
    /\ probes = 2
    /\ lock = ""
    /\ pc = [c \in Callers |-> "idle"]
    /\ cur = [c \in Callers |-> "none"]
    /\ tmp = [c \in Callers |-> 0]
    /\ left = [c \in Callers |-> MaxRaceOps]
    /\ sel = 0
    /\ hit = <<>>
    /\ pool = <<>>

RaceFrame ==
    UNCHANGED <<clk_cnt, core, cells, ephy, trace, handler, ret, arg, nvmem,
                dt, probes, pageVars>>

\* a consumer enters one of its callbacks
RaceCall(c) ==
    /\ pc[c] = "idle"
    /\ left[c] > 0
    /\ \E op \in CallerOps(c) :
         cur' = [cur EXCEPT ![c] = IF op = "reset" THEN "reset1" ELSE op]
    /\ pc' = [pc EXCEPT ![c] = "lock"]
    /\ left' = [left EXCEPT ![c] = @ - 1]
    /\ UNCHANGED <<regs, rstLast, gateLast, lock, tmp>>
    /\ RaceFrame

regmap_lock_none(c) == TRUE

\* the regmap lock admits one caller at a time
regmap_lock_free(c) == lock = ""

RaceLock(c) ==
    /\ pc[c] = "lock"
    /\ regmap_lock_free(c)
    /\ lock' = c
    /\ pc' = [pc EXCEPT ![c] = "read"]
    /\ UNCHANGED <<regs, rstLast, gateLast, cur, tmp, left>>
    /\ RaceFrame

\* _regmap_read; a failed transfer ends the call with the error
RaceRead(c) ==
    /\ pc[c] = "read"
    /\ \E ok \in BOOLEAN :
         /\ tmp' = [tmp EXCEPT ![c] = IF ok THEN regs[AC200_SYS_EPHY_CTL0]
                                      ELSE @]
         /\ pc' = [pc EXCEPT ![c] = IF ok THEN "write" ELSE "fail"]
    /\ UNCHANGED <<regs, rstLast, gateLast, lock, cur, left>>
    /\ RaceFrame

\* write back the word computed from the value read
RaceWrite(c) ==
    /\ pc[c] = "write"
    /\ \E ok \in BOOLEAN :
         LET new == update_word(tmp[c], OpMask(cur[c]), OpBits(cur[c]))
             done == ok \/ new = tmp[c]
             bit == IF OpBits(cur[c]) = 0 THEN 0 ELSE 1
         IN  /\ regs' = IF ok /\ new # tmp[c]
                        THEN [regs EXCEPT ![AC200_SYS_EPHY_CTL0] = new]
                        ELSE regs
             /\ rstLast' = IF done /\ c = "rst" THEN bit ELSE rstLast
             /\ gateLast' = IF done /\ c = "gate" THEN bit ELSE gateLast
             /\ pc' = [pc EXCEPT ![c] = IF done THEN "unlock" ELSE "fail"]
    /\ UNCHANGED <<lock, cur, tmp, left>>
    /\ RaceFrame

\* unlock; ephy_ctl_reset goes on to its set phase only if the clear succeeded
RaceUnlock(c) ==
    /\ pc[c] \in {"unlock", "fail"}
    /\ lock' = IF lock = c THEN "" ELSE lock
    /\ IF pc[c] = "unlock" /\ cur[c] = "reset1"
       THEN /\ cur' = [cur EXCEPT ![c] = "reset2"]
            /\ pc' = [pc EXCEPT ![c] = "lock"]
       ELSE /\ cur' = [cur EXCEPT ![c] = "none"]
            /\ pc' = [pc EXCEPT ![c] = "idle"]
    /\ UNCHANGED <<regs, rstLast, gateLast, tmp, left>>
    /\ RaceFrame

RaceNext ==
    \E c \in Callers :
        \/ RaceCall(c)
        \/ RaceLock(c)
        \/ RaceRead(c)
        \/ RaceWrite(c)
        \/ RaceUnlock(c)

SpecRace == RaceInit /\ [][RaceNext]_vars

-----------------------------------------------------------------------------
(* EPHY control attach over a wide range of calibration values and         *)
(* device-tree properties, on a core that attached successfully.           *)

WordBytes == {0, 10, 12, 13, 255}
WordModes == {"mii", "rmii"}
WordPols == {0, 1, 2}
WordAddrs == {0, 5, 31, 32, 37}
WordRates == {23999999, 24000000, 25000000}

WordPlatform ==
    /\ nvmem \in [bandgap : {<<10, 0>>}, calibration : [1..2 -> WordBytes]]
    /\ dt \in [mode : WordModes, pol : WordPols, addr : WordAddrs,
               rate : WordRates]

\* the machine before anything attached
Machine0 == [regs |-> [r \in Regs |-> 0], clk |-> 0, cells |-> {},
             trace |-> <<>>, ret |-> 0, rst |-> -1, gate |-> -1]

WordInit ==
    /\ WordPlatform
    /\ LET m == ac200_i2c_probe(Machine0, nvmem.bandgap, "none", 0)
       IN  /\ regs = m.regs
           /\ clk_cnt = m.clk
           /\ cells = m.cells
           /\ trace = m.trace
           /\ ret = m.ret
    /\ core = "bound"
    /\ ephy = "unbound"
    /\ handler = "ac200_i2c_probe"
    /\ arg = NoArg
    /\ rstLast = -1
    /\ gateLast = -1
    /\ probes = MaxProbes - 1
    /\ lock = ""
    /\ pc = [c \in {"rst", "gate"} |-> "idle"]
    /\ cur = [c \in {"rst", "gate"} |-> "none"]
    /\ tmp = [c \in {"rst", "gate"} |-> 0]
    /\ left = [c \in {"rst", "gate"} |-> 0]
    /\ sel = 0
    /\ hit = <<>>
    /\ pool = <<>>

WordNext == EphyProbe

SpecWord == WordInit /\ [][WordNext]_vars

-----------------------------------------------------------------------------
(* Paged register transport (ac200_range_cfg): a logical address is        *)
(* reached by writing its page to the selector register and accessing its  *)
(* offset in the window.  Two callers share the bus and the selector.      *)

PageOf_half(a) == a \div (WINDOW_LEN \div 2)

PageOf(a) == a \div WINDOW_LEN

OffsetOf(a) == WINDOW_START + (a % WINDOW_LEN)

\* the selector field as written: page shifted and cut to the selector mask
SelValue(a) == BitAnd(PageOf(a) * (2 ^ SELECTOR_SHIFT), SELECTOR_MASK)

NoHit == [want |-> -1, page |-> -1, off |-> -1]

PageCallers == {"codec", "ephy"}

PagePool ==
    [c \in PageCallers |->
       IF c = "ephy" THEN {AC200_SYS_EPHY_CTL0, AC200_EPHY_CTL}
       ELSE {8192, AC200_MAX_REG}]

PageInit ==
    /\ RaceBoard
    /\ regs = [r \in Regs |-> 0]
    /\ clk_cnt = 1
    /\ core = "bound"
    /\ cells = AC200_CELLS
    /\ ephy = "unbound"
    /\ trace = <<>>
    /\ handler = "none"
    /\ ret = 0
    /\ arg = NoArg
    /\ rstLast = -1
    /\ gateLast = -1
    /\ probes = 1
    /\ lock = ""
    /\ pc = [c \in PageCallers |-> "idle"]
    /\ cur = [c \in PageCallers |-> -1]
    /\ tmp = [c \in PageCallers |-> 0]
    /\ left = [c \in PageCallers |-> MaxPageOps]
    /\ sel = 0
    /\ hit = [c \in PageCallers |-> NoHit]
    /\ pool = PagePool

PageFrame ==
    UNCHANGED <<regs, clk_cnt, core, cells, ephy, trace, handler, ret, arg,
                nvmem, dt, rstLast, gateLast, probes, tmp, pool>>

\* a caller starts a register access
PageCall(c) ==
    /\ pc[c] = "idle"
    /\ left[c] > 0
    /\ \E a \in pool[c] : cur' = [cur EXCEPT ![c] = a]
    /\ pc' = [pc EXCEPT ![c] = "lock"]
    /\ left' = [left EXCEPT ![c] = @ - 1]
    /\ UNCHANGED <<lock, sel, hit>>
    /\ PageFrame

page_lock_none(c) == TRUE

\* ac200_regmap_config leaves the regmap's locking enabled
page_lock_free(c) == lock = ""

PageLock(c) ==
    /\ pc[c] = "lock"
    /\ page_lock_free(c)
    /\ lock' = c
    /\ pc' = [pc EXCEPT ![c] = "select"]
    /\ UNCHANGED <<cur, left, sel, hit>>
    /\ PageFrame

\* page-select write to AC200_TWI_REG_ADDR_H when the page differs; a failed
\* select ends the access with the error
PageSelect(c) ==
    /\ pc[c] = "select"
    /\ \E ok \in BOOLEAN :
         /\ sel' = IF ok THEN SelValue(cur[c]) ELSE sel
         /\ pc' = [pc EXCEPT ![c] = IF ok \/ sel = SelValue(cur[c])
                                    THEN "access" ELSE "unlock"]
    /\ UNCHANGED <<lock, cur, left, hit>>
    /\ PageFrame

\* the access goes to the window offset of whatever page is selected
PageAccess(c) ==
    /\ pc[c] = "access"
    /\ hit' = [hit EXCEPT ![c] = [want |-> cur[c], page |-> sel,
                                  off |-> OffsetOf(cur[c])]]
    /\ pc' = [pc EXCEPT ![c] = "unlock"]
    /\ UNCHANGED <<lock, cur, left, sel>>
    /\ PageFrame

PageUnlock(c) ==
    /\ pc[c] = "unlock"
    /\ lock' = IF lock = c THEN "" ELSE lock
    /\ pc' = [pc EXCEPT ![c] = "idle"]
    /\ UNCHANGED <<cur, left, sel, hit>>
    /\ PageFrame

PageNext ==
    \E c \in PageCallers :
        \/ PageCall(c)
        \/ PageLock(c)
        \/ PageSelect(c)
        \/ PageAccess(c)
        \/ PageUnlock(c)

SpecPage == PageInit /\ [][PageNext]_vars

(* Address decomposition over the whole register range                     *)

AddrInit ==
    /\ RaceBoard
    /\ regs = [r \in Regs |-> 0]
    /\ clk_cnt = 0
    /\ core = "unbound"
    /\ cells = {}
    /\ ephy = "unbound"
    /\ trace = <<>>
    /\ handler = "none"
    /\ ret = 0
    /\ arg = NoArg
    /\ rstLast = -1
    /\ gateLast = -1
    /\ probes = 0
    /\ lock = ""
    /\ pc = [c \in {"core"} |-> "idle"]
    /\ cur = [c \in {"core"} |-> -1]
    /\ tmp = [c \in {"core"} |-> 0]
    /\ left = [c \in {"core"} |-> 1]
    /\ sel = 0
    /\ hit = [c \in {"core"} |-> NoHit]
    /\ pool \in {[c \in {"core"} |-> {a}] : a \in 0..AC200_MAX_REG}

\* split a logical address into the selector field and the window offset
AddrSplit ==
    /\ \E c \in DOMAIN pool : \E a \in pool[c] :
         /\ hit[c] = NoHit
         /\ hit' = [hit EXCEPT ![c] = [want |-> a, page |-> SelValue(a),
                                       off |-> OffsetOf(a)]]
    /\ UNCHANGED <<lock, pc, cur, left, sel>>
    /\ PageFrame

AddrNext == AddrSplit

SpecAddr == AddrInit /\ [][AddrNext]_vars

-----------------------------------------------------------------------------
(* Properties                                                              *)

IsWrite(e, reg) == e.k = "write" /\ e.reg = reg

NWrites(reg) == Cardinality({i \in 1..Len(trace) : IsWrite(trace[i], reg)})

NRegWrites == Cardinality({i \in 1..Len(trace) : trace[i].k = "write"})

Has(kind) == \E i \in 1..Len(trace) : trace[i].k = kind

BitOf(x, i) == (x \div (2 ^ i)) % 2

InCoreProbe == handler = "ac200_i2c_probe"

InEphyProbe == handler = "ac200_ephy_ctl_probe"

RunWriteFailed ==
    \E i \in 1..Len(trace) :
        IsWrite(trace[i], AC200_SYS_CONTROL) /\ trace[i].val = 1 /\ ~trace[i].ok

RunWriteDone ==
    \E i \in 1..Len(trace) :
        IsWrite(trace[i], AC200_SYS_CONTROL) /\ trace[i].val = 1 /\ trace[i].ok

\* value a bit holds when its accessor last set it to v (0 after attach)
Established(v) == IF v = -1 THEN 0 ELSE v

\* C1: when the RUN write (1 to system-control) of core attach fails, attach
\* returns that bus error, the clock enable is undone (enable count back to
\* 0, a disable issued) and no child cell is registered.
C1_RunWriteFailureUnwinds ==
    (InCoreProbe /\ RunWriteFailed) =>
        /\ ret = arg.err
        /\ ret < 0
        /\ clk_cnt = 0
        /\ Has("clk_disable")
        /\ ~Has("add_devices")
        /\ cells = {}
        /\ core = "unbound"

C1_Witness ==
    /\ InCoreProbe
    /\ RunWriteFailed
    /\ Has("clk_enable")
    /\ ret = -121

\* C2: an EPHY-control attach that fails after the IO-enable write to 0x0016
\* was issued ends with the shutdown sequence: shutdown bit to 0x6000, then
\* 0 to 0x0016, then 0 to 0x0014, as the last three bus writes.
C2_LateFailureShutsDown ==
    (/\ InEphyProbe
     /\ ret # 0
     /\ \E i \in 1..Len(trace) :
          /\ IsWrite(trace[i], AC200_SYS_EPHY_CTL1)
          /\ trace[i].val = AC200_EPHY_IO_EN_ALL
          /\ trace[i].ok) =>
        /\ Len(trace) >= 3
        /\ IsWrite(trace[Len(trace) - 2], AC200_EPHY_CTL)
        /\ trace[Len(trace) - 2].val = AC200_EPHY_SHUTDOWN
        /\ IsWrite(trace[Len(trace) - 1], AC200_SYS_EPHY_CTL1)
        /\ trace[Len(trace) - 1].val = 0
        /\ IsWrite(trace[Len(trace)], AC200_SYS_EPHY_CTL0)
        /\ trace[Len(trace)].val = 0

\* C3: a core attach that fails after the clock was enabled unwinds like
\* detach: the last write to system-control issued before the clock is
\* disabled carries the value 0.
C3_UnwindWritesZero ==
    (InCoreProbe /\ ret # 0 /\ Has("clk_disable")) =>
        \E i \in 1..Len(trace) :
            /\ IsWrite(trace[i], AC200_SYS_CONTROL)
            /\ trace[i].val = 0
            /\ \A j \in (i + 1)..Len(trace) :
                 ~IsWrite(trace[j], AC200_SYS_CONTROL)

\* C4: while the EPHY controller is attached, bit 0 of system-ctl0 holds the
\* value last established by a reset-line call and bit 1 the value last
\* established by a gate-clock call: neither accessor disturbs the other's bit.
C4_BitsKeepOwnAccessor ==
    ephy = "bound" =>
        /\ BitOf(regs[AC200_SYS_EPHY_CTL0], 0) = Established(rstLast)
        /\ BitOf(regs[AC200_SYS_EPHY_CTL0], 1) = Established(gateLast)

C4_Witness ==
    /\ ephy = "bound"
    /\ handler = "ephy_ctl_assert"
    /\ ret = 0
    /\ NWrites(AC200_SYS_EPHY_CTL0) = 1
    /\ gateLast = 1
    /\ regs[AC200_SYS_EPHY_CTL0] = 2

\* C5: with a reset-line caller and a gate-clock caller running concurrently,
\* at most one of them is inside a read-modify-write and no update is lost:
\* bit 0 is as the last completed reset-line update left it and bit 1 as the
\* last completed gate update left it, in every interleaving.
C5_NoLostUpdate ==
    /\ BitOf(regs[AC200_SYS_EPHY_CTL0], 0) = Established(rstLast)
    /\ BitOf(regs[AC200_SYS_EPHY_CTL0], 1) = Established(gateLast)
    /\ \A c \in Callers :
         pc[c] \in {"read", "write", "unlock", "fail"} => lock = c

C5_Witness ==
    /\ lock = "gate"
    /\ pc["gate"] = "unlock"
    /\ pc["rst"] = "lock"
    /\ cur["rst"] = "reset2"
    /\ gateLast = 1
    /\ rstLast = 0
    /\ regs[AC200_SYS_EPHY_CTL0] = 2

\* C6: right after a pulse (ephy_ctl_reset) whose bus operations succeeded,
\* status() reports VALID, whatever the line and the gate bit were before.
C6_PulseThenValid ==
    (handler = "ephy_ctl_reset" /\ ret = 0) =>
        ephy_ctl_status(Machine, "none", 0).ret = 1

C6_Witness ==
    /\ handler = "ephy_ctl_reset"
    /\ ret = 0
    /\ NWrites(AC200_SYS_EPHY_CTL0) = 2
    /\ gateLast = 1

\* C7: every register access of core attach and detach is issued while the
\* core holds the clock enabled, and none follows a clock disable.
C7_CoreAccessClocked ==
    handler \in {"ac200_i2c_probe", "ac200_i2c_remove"} =>
        \A i \in 1..Len(trace) :
            trace[i].k \in {"write", "read"} =>
                /\ trace[i].clk
                /\ InCoreProbe =>
                     \E j \in 1..(i - 1) :
                         trace[j].k = "clk_enable" /\ trace[j].ok
                /\ \A j \in 1..(i - 1) : trace[j].k # "clk_disable"

C7_Witness ==
    /\ handler = "ac200_i2c_remove"
    /\ Len(trace) = 2
    /\ IsWrite(trace[1], AC200_SYS_CONTROL)
    /\ trace[1].val = 0
    /\ trace[2].k = "clk_disable"
    /\ clk_cnt = 0

\* C8: EPHY-control attach on a board whose interface mode is neither MII nor
\* RMII fails, with -EINVAL unless an earlier lookup failed, and issues no
\* register write at all.
C8_BadModeNoWrite ==
    (InEphyProbe /\ dt.mode \notin {"mii", "rmii"}) =>
        /\ ret < 0
        /\ ephy = "unbound"
        /\ NRegWrites = 0
        /\ arg.fail \notin {"kzalloc", "get_regmap", "cell_get", "cell_read",
                            "phy_mode"} => ret = -EINVAL

C8_Witness ==
    /\ InEphyProbe
    /\ dt.mode = "rgmii"
    /\ Len(nvmem.calibration) = 2
    /\ arg.fail = "none"
    /\ ret = -EINVAL

\* C9: in a core attach that got past the RUN write, the bandgap register
\* 0x0050 is written (once) exactly when the loaded bandgap value is non-zero.
C9_BandgapWriteIffNonZero ==
    (InCoreProbe /\ RunWriteDone) =>
        /\ NWrites(AC200_SYS_BG_CTL) = IF le16(nvmem.bandgap) # 0 THEN 1 ELSE 0

C9_Witness ==
    /\ InCoreProbe
    /\ RunWriteDone
    /\ ret = 0
    /\ le16(nvmem.bandgap) = 0
    /\ NWrites(AC200_SYS_BG_CTL) = 0

\* C10 (as stated): the value written to 0x0050 is 0x8280 OR'd with the low
\* byte of the bandgap value only.
C10_LowByteOnly ==
    InCoreProbe =>
        \A i \in 1..Len(trace) :
            IsWrite(trace[i], AC200_SYS_BG_CTL) =>
                \A b \in 0..15 :
                    BitOf(trace[i].val, b) =
                        IF BitOf(33408, b) = 1
                           \/ (b < 8 /\ BitOf(le16(nvmem.bandgap), b) = 1)
                        THEN 1 ELSE 0

\* C10 (amended): the value written to 0x0050 is 0x8280 OR'd with all 16
\* bits of the bandgap value; its bits above bit 7 reach the register.
C10_FullValueOred ==
    InCoreProbe =>
        \A i \in 1..Len(trace) :
            IsWrite(trace[i], AC200_SYS_BG_CTL) =>
                /\ trace[i].val < 65536
                /\ \A b \in 0..15 :
                     BitOf(trace[i].val, b) =
                         IF BitOf(33408, b) = 1
                            \/ BitOf(le16(nvmem.bandgap), b) = 1
                         THEN 1 ELSE 0

C10_Witness ==
    /\ InCoreProbe
    /\ NWrites(AC200_SYS_BG_CTL) = 1
    /\ le16(nvmem.bandgap) = 2560
    /\ regs[AC200_SYS_BG_CTL] = 35456

\* C11: the value attach writes to EPHY control 0x6000 has bits 12-15 equal
\* to (trim + 3) mod 16, bit 11 set iff the mode is RMII, bits 4-8 equal to
\* the PHY address mod 32, bit 2 set iff the parent clock runs at exactly
\* 24 MHz, bit 1 set iff the LED polarity is active-low, and no other bit
\* set; for {RMII, active-low, address 5, trim 0x0A, 24 MHz} it is 0xD856.
C11_EphyCtlWord ==
    (InEphyProbe /\ Len(trace) >= 3) =>
        /\ IsWrite(trace[3], AC200_EPHY_CTL)
        /\ trace[3].val < 65536
        /\ \A b \in 0..15 :
             BitOf(trace[3].val, b) =
                 IF b >= 12
                 THEN BitOf((le16(nvmem.calibration) + 3) % 16, b - 12)
                 ELSE IF b = 11 THEN (IF dt.mode = "rmii" THEN 1 ELSE 0)
                 ELSE IF b \in 4..8 THEN BitOf(dt.addr % 32, b - 4)
                 ELSE IF b = 2 THEN (IF dt.rate = 24000000 THEN 1 ELSE 0)
                 ELSE IF b = 1 THEN (IF dt.pol = 1 THEN 1 ELSE 0)
                 ELSE 0
        /\ (/\ nvmem.calibration = <<10, 0>>
            /\ dt = [mode |-> "rmii", pol |-> 1, addr |-> 5,
                     rate |-> 24000000]) => trace[3].val = 55382

C11_Witness ==
    /\ InEphyProbe
    /\ ret = 0
    /\ nvmem.calibration = <<10, 0>>
    /\ dt = [mode |-> "rmii", pol |-> 1, addr |-> 5, rate |-> 24000000]
    /\ regs[AC200_EPHY_CTL] = 55382

\* C12: a successful EPHY-control attach issues, in this order, the write of
\* 0 to 0x0014, the all-enables write to 0x0016, the single write of the
\* ephy-control value to 0x6000 and only then the reset-controller
\* registration; a consumer deassert or pulse therefore runs only on an
\* attached controller whose 0x6000 already holds that value.
C12_WordWrittenOnceBeforeRelease ==
    /\ (InEphyProbe /\ ret = 0) =>
          /\ Len(trace) = 6
          /\ IsWrite(trace[1], AC200_SYS_EPHY_CTL0) /\ trace[1].val = 0
          /\ IsWrite(trace[2], AC200_SYS_EPHY_CTL1)
          /\ trace[2].val = AC200_EPHY_IO_EN_ALL
          /\ IsWrite(trace[3], AC200_EPHY_CTL)
          /\ trace[3].val = regs[AC200_EPHY_CTL]
          /\ NWrites(AC200_EPHY_CTL) = 1
          /\ trace[4].k = "rc_register"
          /\ ephy = "bound"
    /\ handler \in {"ephy_ctl_deassert", "ephy_ctl_reset"} =>
          /\ ephy = "bound"
          /\ regs[AC200_EPHY_CTL] # 0

C12_Witness ==
    /\ handler = "ephy_ctl_deassert"
    /\ ret = 0
    /\ NWrites(AC200_SYS_EPHY_CTL0) = 1
    /\ regs[AC200_EPHY_CTL] = 55382

\* C13: with two callers accessing registers on different pages through the
\* shared transport, the page select and the windowed access of one caller
\* are never separated by the other caller's: every access lands on the
\* logical address its caller asked for.
C13_AccessReachesTarget ==
    /\ \A c \in PageCallers :
         hit[c] # NoHit =>
             hit[c].page * WINDOW_LEN + (hit[c].off - WINDOW_START) = hit[c].want
    /\ \A c \in PageCallers :
         pc[c] \in {"select", "access", "unlock"} => lock = c

C13_Witness ==
    /\ hit["ephy"].want = AC200_EPHY_CTL
    /\ hit["codec"].want = AC200_MAX_REG
    /\ sel = 161
    /\ lock = "codec"
    /\ pc["codec"] = "unlock"
    /\ pc["ephy"] = "lock"
    /\ cur["ephy"] = AC200_SYS_EPHY_CTL0

\* C14: for every logical address A in [0, 0xA1F2] the split gives
\* page = A >> 8 within the 8-bit selector and offset = A & 0xFF below the
\* window length 256, and (page << 8) | offset is A again.
C14_SplitRoundTrip ==
    \A c \in DOMAIN hit :
        hit[c] # NoHit =>
            /\ hit[c].want \in 0..41458
            /\ hit[c].off \in 0..255
            /\ hit[c].page \in 0..255
            /\ hit[c].page * 256 + hit[c].off = hit[c].want

C14_Witness ==
    /\ DOMAIN hit = {"core"}
    /\ hit["core"].want = 41458
    /\ hit["core"].page = 161
    /\ hit["core"].off = 242

EphyHandlers == {"ac200_ephy_ctl_probe", "ac200_ephy_ctl_remove",
                 "ephy_ctl_assert", "ephy_ctl_deassert", "ephy_ctl_reset",
                 "ephy_ctl_status", "clk_gate_enable", "clk_gate_disable"}

\* C15: no register access of the EPHY-control child, the three shutdown
\* writes of its detach included, is issued while the core has the
\* reference clock disabled.
C15_ChildAccessClocked ==
    handler \in EphyHandlers =>
        \A i \in 1..Len(trace) :
            trace[i].k \in {"write", "read"} => trace[i].clk

\* position of a step in the core bring-up sequence
StepRank(e) ==
    IF e.k = "clk_enable" THEN 1
    ELSE IF e.k = "msleep" THEN 2
    ELSE IF IsWrite(e, AC200_SYS_CONTROL) /\ e.val = 0 THEN 3
    ELSE IF IsWrite(e, AC200_SYS_CONTROL) /\ e.val = 1 THEN 4
    ELSE IF IsWrite(e, AC200_SYS_BG_CTL) THEN 5
    ELSE IF e.k = "add_devices" THEN 6
    ELSE IF e.k = "clk_disable" THEN 7
    ELSE 0

\* C16: core bring-up runs clock enable, settle delay, write 0, write 1,
\* optional bandgap write, child registration in that order, each step at
\* most once and only after every earlier step succeeded; the only step
\* after a failure is the clock disable, and children are registered only
\* after the write of 1 succeeded.
C16_LinearBringup ==
    InCoreProbe =>
        /\ \A i \in 1..Len(trace) : StepRank(trace[i]) # 0
        /\ Len(trace) > 0 => StepRank(trace[1]) = 1
        /\ \A i \in 1..(Len(trace) - 1) :
             LET a == StepRank(trace[i])
                 b == StepRank(trace[i + 1])
             IN  /\ a < b
                 /\ b # 7 => trace[i].ok
                 /\ \/ b = a + 1
                    \/ b = 7 /\ ~trace[i].ok
                    \/ a = 4 /\ b = 6 /\ le16(nvmem.bandgap) = 0
        /\ cells # {} => RunWriteDone

C16_Witness ==
    /\ InCoreProbe
    /\ ret = 0
    /\ Len(trace) = 6
    /\ cells = AC200_CELLS

\* C17: a calibration cell whose length is not 2 bytes makes attach fail
\* before any hardware effect: the core neither enables the clock nor
\* writes a register, EPHY-control attach writes no register.
C17_BadLengthNoEffect ==
    /\ (InCoreProbe /\ Len(nvmem.bandgap) # 2) =>
          /\ ret < 0
          /\ trace = <<>>
          /\ clk_cnt = 0
          /\ core = "unbound"
    /\ (InEphyProbe /\ Len(nvmem.calibration) # 2) =>
          /\ ret < 0
          /\ NRegWrites = 0
          /\ ephy = "unbound"

C17_Witness ==
    /\ InCoreProbe
    /\ Len(nvmem.bandgap) = 3
    /\ arg.fail = "none"
    /\ ret = -EINVAL

NReads == Cardinality({i \in 1..Len(trace) : trace[i].k = "read"})

NFailed == Cardinality({i \in 1..Len(trace) : ~trace[i].ok})

\* C18: a successful attach leaves system-ctl0 at 0 with no reset-line call
\* made; from then on a status() whose read succeeds reports VALID exactly
\* when the last reset-line call that took effect was deassert or reset, and
\* INVALID after assert or when none was made; status() changes no register,
\* and repeating a successful assert or deassert changes nothing.
C18_StatusTracksLine ==
    /\ [](/\ (InEphyProbe /\ ret = 0) =>
               (regs[AC200_SYS_EPHY_CTL0] = 0 /\ rstLast = -1)
          /\ (handler = "ephy_ctl_status" /\ ret >= 0) =>
               ret = IF rstLast = 1 THEN 1 ELSE 0)
    /\ [][handler' = "ephy_ctl_status" =>
            (regs' = regs /\ rstLast' = rstLast)]_vars
    /\ [][(/\ handler = handler'
           /\ handler \in {"ephy_ctl_assert", "ephy_ctl_deassert"}
           /\ ret = 0
           /\ ret' = 0) => regs' = regs]_vars

C18_Witness ==
    /\ handler = "ephy_ctl_status"
    /\ ret = 1
    /\ rstLast = 1
    /\ gateLast = 0
    /\ regs[AC200_SYS_EPHY_CTL0] = 1

\* C19: a reset-line callback whose bus transfer fails returns that error
\* and stops: the failed transfer is the last one issued and is not
\* repeated.  In reset, a failure of the clear step leaves the set step
\* unattempted; a failure of the set step after a successful clear leaves
\* the reset-valid bit clear.
C19_BusErrorSurfaced ==
    handler \in {"ephy_ctl_assert", "ephy_ctl_deassert", "ephy_ctl_reset",
                 "ephy_ctl_status"} =>
        /\ NFailed = 0 => ret >= 0
        /\ NFailed > 0 =>
             /\ ret = arg.err
             /\ ret < 0
             /\ NFailed = 1
             /\ ~trace[Len(trace)].ok
        /\ (handler = "ephy_ctl_reset" /\ NFailed > 0 /\ NReads = 1) =>
             \A i \in 1..Len(trace) :
                 trace[i].k = "write" => BitOf(trace[i].val, 0) = 0
        /\ (handler = "ephy_ctl_reset" /\ NFailed > 0 /\ NReads = 2) =>
             BitOf(regs[AC200_SYS_EPHY_CTL0], 0) = 0

C19_Witness ==
    /\ handler = "ephy_ctl_reset"
    /\ ret = -5
    /\ Len(trace) = 4
    /\ NReads = 2
    /\ ~trace[4].ok
    /\ regs[AC200_SYS_EPHY_CTL0] = 2

\* C20: EPHY-control detach issues exactly three writes, the shutdown bit to
\* 0x6000, then 0 to 0x0016, then 0 to 0x0014; when they succeed the reset
\* line is asserted, the clock gate disabled and every IO enable off.
C20_DetachShutdownSequence ==
    handler = "ac200_ephy_ctl_remove" =>
        /\ Len(trace) = 3
        /\ IsWrite(trace[1], AC200_EPHY_CTL)
        /\ trace[1].val = 1
        /\ IsWrite(trace[2], AC200_SYS_EPHY_CTL1)
        /\ trace[2].val = 0
        /\ IsWrite(trace[3], AC200_SYS_EPHY_CTL0)
        /\ trace[3].val = 0
        /\ ret = 0
        /\ ephy = "unbound"
        /\ NFailed = 0 =>
             /\ regs[AC200_SYS_EPHY_CTL0] = 0
             /\ regs[AC200_SYS_EPHY_CTL1] = 0
             /\ regs[AC200_EPHY_CTL] = 1

C20_Witness ==
    /\ handler = "ac200_ephy_ctl_remove"
    /\ NFailed = 0
    /\ core = "bound"
    /\ clk_cnt = 1
    /\ gateLast = 1
    /\ rstLast = 1
    /\ regs[AC200_SYS_EPHY_CTL0] = 0

\* C21: the MFD core keeps its clock enables balanced: the enable count is 0
\* while the core is not attached (before attach, after every failed attach
\* and after detach) and 1 while it is attached; a disable is only issued
\* while the clock is running, in attach only after its own successful
\* enable, and a failure up to and including the enable step issues none.
C21_ClockBalanced ==
    /\ clk_cnt = IF core = "bound" THEN 1 ELSE 0
    /\ (InCoreProbe /\ ret = 0) => core = "bound" /\ clk_cnt = 1
    /\ (InCoreProbe /\ ret # 0) => core = "unbound" /\ clk_cnt = 0
    /\ handler = "ac200_i2c_remove" => core = "releasing" /\ clk_cnt = 0
    /\ \A i \in 1..Len(trace) :
          trace[i].k = "clk_disable" =>
              /\ trace[i].clk
              /\ InCoreProbe =>
                   \E j \in 1..(i - 1) :
                       trace[j].k = "clk_enable" /\ trace[j].ok
    /\ (InCoreProbe /\ arg.fail \in {"kzalloc", "clk_get", "regmap_init",
                                      "cell_get", "cell_read", "clk_enable"})
         => ~Has("clk_disable")
    /\ (InCoreProbe /\ Len(nvmem.bandgap) # 2) => ~Has("clk_disable")

C21_Witness ==
    /\ InCoreProbe
    /\ probes = MaxProbes
    /\ arg.fail = "add_devices"
    /\ ret = arg.err
    /\ Has("clk_enable")
    /\ Has("clk_disable")
    /\ clk_cnt = 0
    /\ regs[AC200_SYS_CONTROL] = 1

====
